---- MODULE Spec2Model ----
(***************************************************************************)
(* FROGS mirror: frogs.py main() driving util.py FTPGetter.  The model     *)
(* follows one process after another (scheduled runs) over a fixed remote  *)
(* tree and a local file system that persists between runs.                *)
(***************************************************************************)
EXTENDS Integers, Sequences, FiniteSets, TLC

\* ------------------------------------------------------------------ bounds

\* Number of scheduled runs followed.
MaxRuns == 2

\* ------------------------------------------------------- names and paths

\* The characters of each file name met in a listing.
Chars ==
    [n \in {"a.nc", "b.nc", "c.NC", "d.nc", "x.nc", "y.nc"} |->
        CASE n = "a.nc" -> <<"a", ".", "n", "c">>
          [] n = "b.nc" -> <<"b", ".", "n", "c">>
          [] n = "c.NC" -> <<"c", ".", "N", "C">>
          [] n = "d.nc" -> <<"d", ".", "n", "c">>
          [] n = "x.nc" -> <<"x", ".", "n", "c">>
          [] n = "y.nc" -> <<"y", ".", "n", "c">>]

\* extension=".nc" as main passes it to FTPGetter.
Extension == <<".", "n", "c">>

\* remoteDir + datasetName on the server, localDir + datasetName on disk:
\* "top" stands for FROGs/ remotely and <root_dir>/frogs/data/ locally.
DatasetDir == <<"top", "1DD_V1">>

\* "../": the parent of a directory (the root is its own parent).
Parent(dir) == IF dir = <<>> THEN dir ELSE SubSeq(dir, 1, Len(dir) - 1)

\* A name taken relative to a working directory.
Resolve(cwd, name) ==
    IF name = "." THEN cwd
    ELSE IF name = ".." THEN Parent(cwd)
    ELSE Append(cwd, name)

\* os.path.abspath(filename)
AbsPath(cwd, name) == Resolve(cwd, name)

\* One line of a LIST reply: its first character and the space-separated
\* words of its name part (the words before it never matter to the code).
Line(mark, words) == [mark |-> mark, words |-> words]

\* dirLine[(dirLine.rindex(" ") + 1):] : the text after the last space.
LastWord(line) == line.words[Len(line.words)]

\* The extension strings FTPGetter may be built with: the one main passes,
\* and the empty string.
Extensions == {Extension, <<>>}

\* text[-idx:] as Python slices it: the last idx characters, and the whole
\* text when idx is 0 or more than its length.
LastChars(text, idx) ==
    IF idx = 0 \/ idx > Len(text) THEN text
    ELSE SubSeq(text, Len(text) - idx + 1, Len(text))

\* ---------------------------------------------------------- remote tree

\* Listings of the dataset directory the server may hold.
TopListings ==
    { <<Line("d", <<".">>), Line("d", <<"..">>), Line("d", <<"s">>)>>,
      <<Line("d", <<".">>), Line("d", <<"..">>), Line("d", <<"s">>),
        Line("d", <<"t">>)>>,
      <<Line("d", <<".">>), Line("d", <<"..">>), Line("-", <<"x.nc">>),
        Line("d", <<"s">>)>>,
      <<Line("d", <<".">>), Line("d", <<"..">>), Line("d", <<"s">>),
        Line("l", <<"k">>)>>,
      <<Line("d", <<"t">>), Line("-", <<"x.nc">>), Line("d", <<"s">>)>> }

\* Listings of the directories below (and above) the dataset directory.
SubListing(dir) ==
    CASE dir = <<"top", "1DD_V1", "s">> ->
            <<Line("-", <<"a.nc">>), Line("d", <<"u">>), Line("-", <<"c.NC">>),
              Line("l", <<"k">>), Line("-", <<"b.nc">>)>>
      [] dir = <<"top", "1DD_V1", "s", "u">> -> <<Line("-", <<"d.nc">>)>>
      [] dir = <<"top", "1DD_V1", "t">> -> <<Line("-", <<"x", "y.nc">>)>>
      [] dir = <<"top">> -> <<Line("d", <<"1DD_V1">>)>>
      [] OTHER -> <<Line("d", <<"top">>)>>

RemoteDirs ==
    { <<>>, <<"top">>, DatasetDir, <<"top", "1DD_V1", "s">>,
      <<"top", "1DD_V1", "s", "u">>, <<"top", "1DD_V1", "t">> }

\* Remote modification time (UTC) of every remote file.
RemoteMTime == 2

\* Content of the remote files, as the blocks retrbinary hands over.
RemoteFiles ==
    (<<"top", "1DD_V1", "s", "a.nc">> :> [content |-> <<1, 2>>, mtime |-> RemoteMTime])
 @@ (<<"top", "1DD_V1", "s", "b.nc">> :> [content |-> <<1>>, mtime |-> RemoteMTime])
 @@ (<<"top", "1DD_V1", "s", "c.NC">> :> [content |-> <<2>>, mtime |-> RemoteMTime])
 @@ (<<"top", "1DD_V1", "s", "u", "d.nc">> :> [content |-> <<2>>, mtime |-> RemoteMTime])
 @@ (<<"top", "1DD_V1", "x.nc">> :> [content |-> <<2>>, mtime |-> RemoteMTime])

RemoteHas(path) == path \in DOMAIN RemoteFiles

\* hashlib.md5(...).hexdigest() of a content
RECURSIVE Md5(_)
Md5(c) ==
    IF c = <<>> THEN 7
    ELSE (Md5(SubSeq(c, 1, Len(c) - 1)) * 31 + c[Len(c)]) % 1009

\* Offsets of the local time zone from UTC the host may run under.
TZOffsets == {-1, 0, 1}

\* datetime.fromtimestamp(os.path.getmtime(filename)): naive local time
FromTimestamp(mtime, offset) == mtime + offset

\* --------------------------------------------------------------- state

VARIABLES
    check,          \* self.check
    extension,      \* self.extension
    tz,             \* the host's offset from UTC
    remoteTop,      \* the server's listing of the dataset directory
    now,            \* wall clock (UTC)
    run,            \* which scheduled run this is
    pc,             \* position of main
    localDirs,      \* local directories
    localFiles,     \* local files: path -> [content, mtime]
    localCwd,       \* os.getcwd()
    remoteCwd,      \* ftp.pwd()
    sessionOpen,    \* the FTP connection is open
    summaryPrinted, \* print_summary has run
    updatedFiles,   \* self.updatedFiles
    newFiles,       \* self.newFiles
    errorFiles,     \* self.errorFiles
    datasetList,    \* main: datasetList
    dsIdx,          \* main: position of ds in datasetList
    fileList,       \* main: fileList
    fIdx,           \* main: position of f in fileList
    dl,             \* the downloadFile call in progress
    doFileCalls,    \* paths doFile was called for in this run
    checkQueries,   \* files a comparison query was made for in this run
    faults,         \* transport operations that raised in this run
    prevErrors,     \* errorFiles of the previous run
    prevEnd,        \* how the previous run ended
    processed       \* positions of datasetList handed to doDirectory in this run

vars == <<check, extension, tz, remoteTop, now, run, pc, localDirs, localFiles, localCwd,
          remoteCwd, sessionOpen, summaryPrinted, updatedFiles, newFiles,
          errorFiles, datasetList, dsIdx, fileList, fIdx, dl, doFileCalls,
          checkQueries, faults, prevErrors, prevEnd, processed>>

config == <<check, extension, tz, remoteTop>>
lists == <<updatedFiles, newFiles, errorFiles>>
fs == <<localDirs, localFiles>>
cursors == <<localCwd, remoteCwd>>
history == <<doFileCalls, checkQueries, faults, prevErrors, prevEnd, processed>>

\* filename[-idx:] == self.extension
HasExtension(name) == LastChars(Chars[name], Len(extension)) = extension

NoDownload == [name |-> "", isUpdate |-> FALSE, pos |-> 0, old |-> <<>>]

\* ------------------------------------------------------------ helpers

Range(seq) == {seq[i] : i \in 1..Len(seq)}

\* The listing the server returns for a directory.
Listing(dir) == IF dir = DatasetDir THEN remoteTop ELSE SubListing(dir)

\* os.path.exists(name), from the local working directory
LocalExists(name) ==
    \/ Resolve(localCwd, name) \in localDirs
    \/ Resolve(localCwd, name) \in DOMAIN localFiles

\* Local files a run may find in directory s when the model starts.
LocalChoicesA ==
    { <<>>,
      <<[content |-> <<3>>, mtime |-> RemoteMTime - 1]>>,
      <<[content |-> <<3>>, mtime |-> RemoteMTime]>>,
      <<[content |-> <<1, 2>>, mtime |-> RemoteMTime - 1]>>,
      <<[content |-> <<1, 2>>, mtime |-> RemoteMTime]>> }

LocalChoicesB == { <<>>, <<[content |-> <<1>>, mtime |-> RemoteMTime]>> }

PathA == <<"top", "1DD_V1", "s", "a.nc">>
PathB == <<"top", "1DD_V1", "s", "b.nc">>

FilesOf(path, choice) ==
    IF choice = <<>> THEN <<>> ELSE (path :> choice[1])

\* ---------------------------------------------------------------- Init

\* FTPGetter.__init__ has run: the lists are empty and the session is open.
Init ==
    /\ check \in {"", "mdate", "md5sum"}
    /\ extension \in Extensions
    /\ tz \in TZOffsets
    /\ remoteTop \in TopListings
    /\ now = RemoteMTime
    /\ run = 1
    /\ pc = "main"
    /\ \E a \in LocalChoicesA, b \in LocalChoicesB :
          /\ localFiles = FilesOf(PathA, a) @@ FilesOf(PathB, b)
          /\ localDirs = {<<>>, <<"top">>, DatasetDir}
                           \cup (IF a = <<>> /\ b = <<>> THEN {}
                                 ELSE {<<"top", "1DD_V1", "s">>})
    /\ localCwd = <<>>
    /\ remoteCwd = <<>>
    /\ sessionOpen = TRUE
    /\ summaryPrinted = FALSE
    /\ updatedFiles = <<>>
    /\ newFiles = <<>>
    /\ errorFiles = <<>>
    /\ datasetList = <<>>
    /\ dsIdx = 0
    /\ fileList = <<>>
    /\ fIdx = 0
    /\ dl = NoDownload
    /\ doFileCalls = {}
    /\ checkQueries = {}
    /\ faults = 0
    /\ prevErrors = <<>>
    /\ prevEnd = "none"
    /\ processed = <<>>

\* -------------------------------------------------------- main: entry

\* main with the loop running over the whole of datasetList.
MainEnter_noSkip ==
    /\ pc = "main"
    /\ remoteCwd' = DatasetDir
    /\ localCwd' = DatasetDir
    /\ datasetList' = Listing(DatasetDir)
    /\ dsIdx' = 1
    /\ pc' = "loop"
    /\ UNCHANGED <<config, now, run, fs, sessionOpen, summaryPrinted, lists,
                   fileList, fIdx, dl, history>>

\* getter.ftp.cwd(remoteDir + datasetName); os.chdir(localDir + datasetName);
\* getter.ftp.retrlines("LIST", datasetList.append); the loop starts at
\* datasetList[2:].
MainEnter ==
    /\ pc = "main"
    /\ remoteCwd' = DatasetDir
    /\ localCwd' = DatasetDir
    /\ datasetList' = Listing(DatasetDir)
    /\ dsIdx' = 3
    /\ pc' = "loop"
    /\ UNCHANGED <<config, now, run, fs, sessionOpen, summaryPrinted, lists,
                   fileList, fIdx, dl, history>>

\* The same statements with the transport raising at the cwd or at the LIST:
\* nothing in main catches it.
MainEnterFails ==
    /\ pc = "main"
    /\ \E at \in {"cwd", "list"} :
          /\ remoteCwd' = IF at = "cwd" THEN remoteCwd ELSE DatasetDir
          /\ localCwd' = IF at = "cwd" THEN localCwd ELSE DatasetDir
    /\ pc' = "aborted"
    /\ faults' = faults + 1
    /\ UNCHANGED <<config, now, run, fs, sessionOpen, summaryPrinted, lists,
                   datasetList, dsIdx, fileList, fIdx, dl, doFileCalls,
                   checkQueries, prevErrors, prevEnd, processed>>

\* --------------------------------------------------------- doDirectory

\* fileList = getter.doDirectory(ds, True); baseDir = os.getcwd()
doDirectory ==
    /\ pc = "loop"
    /\ dsIdx <= Len(datasetList)
    /\ LET dirLine == datasetList[dsIdx]
           dirName == LastWord(dirLine)
           ldir == Resolve(localCwd, dirName)
           rdir == Resolve(remoteCwd, dirName)
       IN  IF dirLine.mark = "d"
           THEN /\ localDirs' = localDirs \cup {ldir}
                /\ localCwd' = ldir
                /\ IF rdir \in RemoteDirs
                   THEN /\ remoteCwd' = rdir
                        /\ fileList' = Listing(rdir)
                        /\ fIdx' = 1
                        /\ pc' = "files"
                   ELSE \* ftp.cwd: 550, no such directory
                        /\ pc' = "aborted"
                        /\ UNCHANGED <<remoteCwd, fileList, fIdx>>
           ELSE /\ fileList' = <<>>
                /\ fIdx' = 1
                /\ pc' = "files"
                /\ UNCHANGED <<localDirs, localCwd, remoteCwd>>
    /\ processed' = Append(processed, dsIdx)
    /\ UNCHANGED <<config, now, run, localFiles, sessionOpen, summaryPrinted,
                   lists, datasetList, dsIdx, dl, doFileCalls, checkQueries,
                   faults, prevErrors, prevEnd>>

\* doDirectory with the transport raising at ftp.cwd or at the LIST: the
\* local side has already moved.
doDirectoryFails ==
    /\ pc = "loop"
    /\ dsIdx <= Len(datasetList)
    /\ LET dirLine == datasetList[dsIdx]
           dirName == LastWord(dirLine)
           ldir == Resolve(localCwd, dirName)
           rdir == Resolve(remoteCwd, dirName)
       IN  /\ dirLine.mark = "d"
           /\ rdir \in RemoteDirs
           /\ localDirs' = localDirs \cup {ldir}
           /\ localCwd' = ldir
           /\ \E at \in {"cwd", "list"} :
                 remoteCwd' = IF at = "cwd" THEN remoteCwd ELSE rdir
    /\ pc' = "aborted"
    /\ faults' = faults + 1
    /\ processed' = Append(processed, dsIdx)
    /\ UNCHANGED <<config, now, run, localFiles, sessionOpen, summaryPrinted,
                   lists, datasetList, dsIdx, fileList, fIdx, dl, doFileCalls,
                   checkQueries, prevErrors, prevEnd>>

\* ------------------------------------------------- handleFile / doFile

\* The entry main hands to handleFile.
CurLine == fileList[fIdx]

\* handleFile: the entry is a regular file whose name ends with the
\* extension, so doFile is called with this filename.
IsWanted(fileLine) == fileLine.mark = "-" /\ HasExtension(LastWord(fileLine))

LocalPath(name) == Resolve(localCwd, name)
RemotePath(name) == Resolve(remoteCwd, name)

\* check_md5sum with the comparison turned round: the hashes are equal.
check_md5sum_equal(filename) ==
    Md5(localFiles[LocalPath(filename)].content)
        = Md5(RemoteFiles[RemotePath(filename)].content)

\* check_md5sum: local_md5 != ftp_md5
check_md5sum(filename) ==
    Md5(localFiles[LocalPath(filename)].content)
        # Md5(RemoteFiles[RemotePath(filename)].content)

\* check_mdt: localModTime < remoteLastModDate
check_mdt(filename) ==
    FromTimestamp(localFiles[LocalPath(filename)].mtime, tz)
        < RemoteFiles[RemotePath(filename)].mtime

\* doFile with update starting as True: an existing file is fetched again
\* when no mode is set.
UpdateNeeded_defaultTrue(filename) ==
    IF check = "md5sum" THEN check_md5sum(filename)
    ELSE IF check = "mdate" THEN check_mdt(filename)
    ELSE TRUE

\* doFile: the comparison the configured mode asks for (update stays False
\* when no mode is set).
UpdateNeeded(filename) ==
    IF check = "md5sum" THEN check_md5sum(filename)
    ELSE IF check = "mdate" THEN check_mdt(filename)
    ELSE FALSE

\* doFile makes a request to the server before deciding.
NeedsQuery(filename) ==
    LocalExists(filename) /\ check \in {"md5sum", "mdate"}

\* main: the next f of fileList.
NextFile ==
    /\ fIdx' = fIdx + 1
    /\ pc' = "files"

\* handleFile(baseDir, f), up to the point doFile returns or calls
\* downloadFile.
handleFile ==
    /\ pc = "files"
    /\ fIdx <= Len(fileList)
    /\ LET filename == LastWord(CurLine)
       IN  IF ~IsWanted(CurLine)
           THEN /\ NextFile
                /\ UNCHANGED <<dl, doFileCalls, checkQueries>>
           ELSE /\ doFileCalls' = doFileCalls \cup {LocalPath(filename)}
                /\ IF LocalExists(filename)
                   THEN IF NeedsQuery(filename) /\ ~RemoteHas(RemotePath(filename))
                        THEN \* MDTM or RETR: 550, not caught by handleFile
                             /\ pc' = "aborted"
                             /\ checkQueries' = checkQueries \cup {LocalPath(filename)}
                             /\ UNCHANGED <<fIdx, dl>>
                        ELSE /\ checkQueries' =
                                  IF NeedsQuery(filename)
                                  THEN checkQueries \cup {LocalPath(filename)}
                                  ELSE checkQueries
                             /\ IF UpdateNeeded(filename)
                                THEN /\ pc' = "dl_open"
                                     /\ dl' = [name |-> filename, isUpdate |-> TRUE,
                                               pos |-> 0,
                                               old |-> localFiles[LocalPath(filename)].content]
                                     /\ UNCHANGED fIdx
                                ELSE /\ NextFile
                                     /\ UNCHANGED dl
                   ELSE /\ pc' = "dl_open"
                        /\ dl' = [name |-> filename, isUpdate |-> FALSE,
                                  pos |-> 0, old |-> <<>>]
                        /\ UNCHANGED <<fIdx, checkQueries>>
    /\ UNCHANGED <<config, now, run, fs, cursors, sessionOpen, summaryPrinted,
                   lists, datasetList, dsIdx, fileList, faults, prevErrors,
                   prevEnd, processed>>

\* doFile with the transport raising inside check_md5sum (the RETR) or
\* check_mdt (the MDTM): handleFile catches ValueError only.
checkFails ==
    /\ pc = "files"
    /\ fIdx <= Len(fileList)
    /\ IsWanted(CurLine)
    /\ NeedsQuery(LastWord(CurLine))
    /\ doFileCalls' = doFileCalls \cup {LocalPath(LastWord(CurLine))}
    /\ checkQueries' = checkQueries \cup {LocalPath(LastWord(CurLine))}
    /\ faults' = faults + 1
    /\ pc' = "aborted"
    /\ UNCHANGED <<config, now, run, fs, cursors, sessionOpen, summaryPrinted,
                   lists, datasetList, dsIdx, fileList, fIdx, dl, prevErrors,
                   prevEnd, processed>>

\* -------------------------------------------------------- downloadFile

\* The name downloadFile writes to: filename + ".1" for an update.
Target(d) == IF d.isUpdate THEN d.name \o ".1" ELSE d.name

\* open(..., "wb"): the target is created, or truncated if it exists.
downloadOpen ==
    /\ pc = "dl_open"
    /\ localFiles' = (LocalPath(Target(dl)) :> [content |-> <<>>, mtime |-> now])
                        @@ localFiles
    /\ pc' = "dl_fetch"
    /\ UNCHANGED <<config, now, run, localDirs, cursors, sessionOpen,
                   summaryPrinted, lists, datasetList, dsIdx, fileList, fIdx,
                   dl, history>>

\* retrbinary hands one more block to newFile.write.
downloadBlock ==
    /\ pc = "dl_fetch"
    /\ RemoteHas(RemotePath(dl.name))
    /\ dl.pos < Len(RemoteFiles[RemotePath(dl.name)].content)
    /\ LET t == LocalPath(Target(dl))
           block == RemoteFiles[RemotePath(dl.name)].content[dl.pos + 1]
       IN  localFiles' = [localFiles EXCEPT
                             ![t] = [content |-> Append(@.content, block),
                                     mtime |-> now]]
    /\ dl' = [dl EXCEPT !.pos = @ + 1]
    /\ UNCHANGED <<config, now, run, localDirs, cursors, sessionOpen,
                   summaryPrinted, lists, datasetList, dsIdx, fileList, fIdx,
                   pc, history>>

\* The finally block: newFile.close(); os.rename(filename + ".1", filename)
\* for an update.
CloseAndRename(files, d) ==
    IF d.isUpdate
    THEN [p \in (DOMAIN files \ {LocalPath(Target(d))}) \cup {LocalPath(d.name)} |->
             IF p = LocalPath(d.name) THEN files[LocalPath(Target(d))] ELSE files[p]]
    ELSE files

\* downloadFile reporting the outcome of the fetch.
DownloadResult_truthful(raised) == ~raised

\* What downloadFile returns: the finally block ends in "return True",
\* which replaces the "return False" of the except block.
DownloadResult(raised) == TRUE

\* doFile with the two lists exchanged.
RecordResult_swapped(d, result) ==
    /\ updatedFiles' = IF result /\ ~d.isUpdate
                       THEN Append(updatedFiles, AbsPath(localCwd, d.name))
                       ELSE updatedFiles
    /\ newFiles' = IF result /\ d.isUpdate
                   THEN Append(newFiles, AbsPath(localCwd, d.name))
                   ELSE newFiles

\* doFile after downloadFile: the file is added to a list if result is True.
RecordResult(d, result) ==
    /\ updatedFiles' = IF result /\ d.isUpdate
                       THEN Append(updatedFiles, AbsPath(localCwd, d.name))
                       ELSE updatedFiles
    /\ newFiles' = IF result /\ ~d.isUpdate
                   THEN Append(newFiles, AbsPath(localCwd, d.name))
                   ELSE newFiles

\* The fetch completed: chmod and chgrp, the finally block, and doFile's
\* record.
downloadDone ==
    /\ pc = "dl_fetch"
    /\ RemoteHas(RemotePath(dl.name))
    /\ dl.pos = Len(RemoteFiles[RemotePath(dl.name)].content)
    /\ localFiles' = CloseAndRename(localFiles, dl)
    /\ RecordResult(dl, DownloadResult(FALSE))
    /\ dl' = NoDownload
    /\ NextFile
    /\ UNCHANGED <<config, now, run, localDirs, cursors, sessionOpen,
                   summaryPrinted, errorFiles, datasetList, dsIdx, fileList,
                   history>>

\* except Exception: the failure is recorded in errorFiles.
RecordError(d) == errorFiles' = Append(errorFiles, d.name)

\* retrbinary raises (the server has no such file, or the transport breaks
\* at any point of the transfer): the except block, the finally block, and
\* doFile's record.
downloadFetchFails ==
    /\ pc = "dl_fetch"
    /\ RecordError(dl)
    /\ localFiles' = CloseAndRename(localFiles, dl)
    /\ RecordResult(dl, DownloadResult(TRUE))
    /\ dl' = NoDownload
    /\ NextFile
    /\ faults' = IF RemoteHas(RemotePath(dl.name)) THEN faults + 1 ELSE faults
    /\ UNCHANGED <<config, now, run, localDirs, cursors, sessionOpen,
                   summaryPrinted, datasetList, dsIdx, fileList, doFileCalls,
                   checkQueries, prevErrors, prevEnd, processed>>

\* ---------------------------------------------------- main: loop, end

\* getter.ftp.cwd("../"); os.chdir("../"), then the next ds.
MainLeave ==
    /\ pc = "files"
    /\ fIdx > Len(fileList)
    /\ remoteCwd' = Parent(remoteCwd)
    /\ localCwd' = Parent(localCwd)
    /\ dsIdx' = dsIdx + 1
    /\ pc' = "loop"
    /\ UNCHANGED <<config, now, run, fs, sessionOpen, summaryPrinted, lists,
                   datasetList, fileList, fIdx, dl, history>>

\* getter.ftp.cwd("../") raises.
MainLeaveFails ==
    /\ pc = "files"
    /\ fIdx > Len(fileList)
    /\ pc' = "aborted"
    /\ faults' = faults + 1
    /\ UNCHANGED <<config, now, run, fs, cursors, sessionOpen, summaryPrinted,
                   lists, datasetList, dsIdx, fileList, fIdx, dl, doFileCalls,
                   checkQueries, prevErrors, prevEnd, processed>>

\* getter.print_summary(); getter.close(); logging.shutdown()
MainEnd ==
    /\ pc = "loop"
    /\ dsIdx > Len(datasetList)
    /\ summaryPrinted' = TRUE
    /\ sessionOpen' = FALSE
    /\ pc' = "done"
    /\ UNCHANGED <<config, now, run, fs, cursors, lists, datasetList, dsIdx,
                   fileList, fIdx, dl, history>>

\* The next scheduled run: a new process, a new FTPGetter; the local files
\* are what the last run left.
NextRun ==
    /\ pc \in {"done", "aborted"}
    /\ run < MaxRuns
    /\ run' = run + 1
    /\ now' \in {now, now + 1}
    /\ pc' = "main"
    /\ localCwd' = <<>>
    /\ remoteCwd' = <<>>
    /\ sessionOpen' = TRUE
    /\ summaryPrinted' = FALSE
    /\ updatedFiles' = <<>>
    /\ newFiles' = <<>>
    /\ errorFiles' = <<>>
    /\ datasetList' = <<>>
    /\ dsIdx' = 0
    /\ fileList' = <<>>
    /\ fIdx' = 0
    /\ dl' = NoDownload
    /\ doFileCalls' = {}
    /\ checkQueries' = {}
    /\ faults' = 0
    /\ prevErrors' = errorFiles
    /\ prevEnd' = pc
    /\ processed' = <<>>
    /\ UNCHANGED <<config, fs>>

Next ==
    \/ MainEnter
    \/ MainEnterFails
    \/ doDirectory
    \/ doDirectoryFails
    \/ handleFile
    \/ checkFails
    \/ downloadOpen
    \/ downloadBlock
    \/ downloadDone
    \/ downloadFetchFails
    \/ MainLeave
    \/ MainLeaveFails
    \/ MainEnd
    \/ NextRun

Spec == Init /\ [][Next]_vars

\* --------------------------------------------------------------- claims

\* A downloadFile call is in progress.
Downloading == pc \in {"dl_open", "dl_fetch"}

\* The step ends a downloadFile call whose fetch raised.
FetchRaisedStep == pc = "dl_fetch" /\ errorFiles' # errorFiles

\* The step ends a downloadFile call whose fetch completed.
FetchCompletedStep ==
    pc = "dl_fetch" /\ pc' = "files" /\ errorFiles' = errorFiles

\* The last element of a path: the file's name.
BaseName(path) == path[Len(path)]

\* C1: atomic update. While downloadFile(filename, isUpdate=True) is
\* fetching, the file at filename holds its old content; when the call
\* returns the file holds the remote content if the fetch completed and
\* still its old content if the fetch raised.
C1_AtomicUpdate ==
    [][ /\ (Downloading /\ dl.isUpdate)
            => localFiles[LocalPath(dl.name)].content = dl.old
        /\ (FetchCompletedStep /\ dl.isUpdate)
            => localFiles'[LocalPath(dl.name)].content
                  = RemoteFiles[RemotePath(dl.name)].content
        /\ (FetchRaisedStep /\ dl.isUpdate)
            => localFiles'[LocalPath(dl.name)].content = dl.old ]_vars

\* C2: one terminal outcome per file. No file is in two of the three lists:
\* a file whose download failed (it is named in errorFiles) is in neither
\* newFiles nor updatedFiles, and no file is both new and updated.
C2_OneOutcome ==
    /\ \A p \in Range(newFiles) \cup Range(updatedFiles) :
          BaseName(p) \notin Range(errorFiles)
    /\ Range(newFiles) \cap Range(updatedFiles) = {}

\* C3: a failed file is picked up by the next run. When a run that followed
\* a run with failed downloads ends normally with no transport error of its
\* own, every file of the server that the previous run failed to download
\* is on disk with the complete remote content, whatever the comparison mode.
C3_FailedFilePickedUp ==
    (run > 1 /\ pc = "done" /\ faults = 0)
        => \A p \in DOMAIN RemoteFiles :
              BaseName(p) \in Range(prevErrors)
                 => /\ p \in DOMAIN localFiles
                    /\ localFiles[p].content = RemoteFiles[p].content

\* C4: per-file failures never stop the run. Whenever the transport raises
\* while a file with the configured extension is being processed (in the
\* comparison query or in the download), the error is caught, errorFiles
\* gets an entry, and the run goes on to the next listing entry.
C4_FileFaultCaught ==
    [][ (/\ faults' = faults + 1
         /\ \/ pc = "dl_fetch"
            \/ pc = "files" /\ fIdx <= Len(fileList))
        => /\ pc' = "files"
           /\ fIdx' = fIdx + 1
           /\ Len(errorFiles') = Len(errorFiles) + 1 ]_vars

\* C5: scenario C. When the fetch inside downloadFile raises, exactly one
\* entry naming the file is appended to errorFiles and main moves to the
\* next entry of the same listing; and a run in which a download has failed
\* this way is not cut short before the summary and the close: it never
\* ends in an uncaught exception.
C5_DownloadFaultIsolated ==
    [][ /\ FetchRaisedStep
            => /\ errorFiles' = Append(errorFiles, dl.name)
               /\ pc' = "files"
               /\ fIdx' = fIdx + 1
               /\ fileList' = fileList
        /\ (errorFiles # <<>> /\ run' = run) => pc' # "aborted" ]_vars

\* C6: idempotence. Under modified-time or checksum mode, when a run that
\* ended normally and recorded no failure is followed by a second run over
\* the unchanged server that also ends normally with no failure, the second
\* run records no new and no updated file.
C6_Idempotent ==
    (/\ run > 1
     /\ prevEnd = "done"
     /\ prevErrors = <<>>
     /\ pc = "done"
     /\ faults = 0
     /\ errorFiles = <<>>
     /\ check \in {"mdate", "md5sum"})
        => newFiles = <<>> /\ updatedFiles = <<>>

\* C7: every directory entry is recursed into. Whenever the walk takes a
\* directory entry from a listing, at any depth, and the step does not
\* raise, the matching local directory exists afterwards and both cursors
\* are inside the directory.
C7_EveryDirectoryEntered ==
    [][ /\ (/\ pc = "files"
            /\ fIdx <= Len(fileList)
            /\ CurLine.mark = "d"
            /\ pc' # "aborted")
            => /\ localCwd' = Resolve(localCwd, LastWord(CurLine))
               /\ remoteCwd' = Resolve(remoteCwd, LastWord(CurLine))
               /\ localCwd' \in localDirs'
        /\ (/\ pc = "loop"
            /\ dsIdx <= Len(datasetList)
            /\ datasetList[dsIdx].mark = "d"
            /\ pc' # "aborted")
            => /\ localCwd' = Resolve(localCwd, LastWord(datasetList[dsIdx]))
               /\ remoteCwd' = Resolve(remoteCwd, LastWord(datasetList[dsIdx]))
               /\ localCwd' \in localDirs' ]_vars

\* C8: lock-step cursors. Between two top-level entries (main is at the
\* head of its loop) the local and the remote working directory are both
\* the dataset directory.
C8_CursorsAtDataset ==
    pc = "loop" => localCwd = DatasetDir /\ remoteCwd = DatasetDir

\* C9: the session is closed on every way a run can end, by the summary or
\* by an error that aborts the mirror.
C9_SessionClosedAtEnd ==
    pc \in {"done", "aborted"} => ~sessionOpen

\* C10: modified-time mode. For a file present locally, doFile goes on to
\* an update exactly when the local modification time is strictly earlier
\* than the remote one.
C10_MdateStrict ==
    [][ (/\ pc = "files"
         /\ fIdx <= Len(fileList)
         /\ IsWanted(CurLine)
         /\ LocalExists(LastWord(CurLine))
         /\ check = "mdate"
         /\ pc' # "aborted")
        => ((pc' = "dl_open" /\ dl'.isUpdate)
              <=> localFiles[LocalPath(LastWord(CurLine))].mtime
                     < RemoteFiles[RemotePath(LastWord(CurLine))].mtime) ]_vars

\* main hands handleFile an entry that reaches doFile.
DoFileStep == pc = "files" /\ fIdx <= Len(fileList) /\ IsWanted(CurLine)

\* C11: files absent locally are new. Under every comparison mode, doFile
\* for a file that does not exist locally makes no comparison query and
\* calls downloadFile with isUpdate false; when the fetch completes, the
\* absolute local path is appended to newFiles and updatedFiles is left
\* alone, and no path is in both lists.
C11_AbsentIsNew ==
    [][ /\ (DoFileStep /\ ~LocalExists(LastWord(CurLine)))
            => /\ pc' = "dl_open"
               /\ dl'.name = LastWord(CurLine)
               /\ dl'.isUpdate = FALSE
               /\ checkQueries' = checkQueries
        /\ (FetchCompletedStep /\ ~dl.isUpdate)
            => /\ newFiles' = Append(newFiles, AbsPath(localCwd, dl.name))
               /\ updatedFiles' = updatedFiles
               /\ Range(newFiles') \cap Range(updatedFiles') = {} ]_vars

\* An absent a.nc was downloaded without error under checksum mode and is
\* recorded as new.
C11_Witness ==
    /\ check = "md5sum"
    /\ PathA \in Range(newFiles)
    /\ PathA \notin checkQueries
    /\ errorFiles = <<>>
    /\ localFiles[PathA].content = RemoteFiles[PathA].content

\* C12: no comparison mode. For a file present locally with check = "",
\* doFile returns at once: no query, no download, the local files and the
\* three lists unchanged, and main moves to the next entry.
C12_NoCheckSkips ==
    [][ (DoFileStep /\ LocalExists(LastWord(CurLine)) /\ check = "")
        => /\ pc' = "files"
           /\ fIdx' = fIdx + 1
           /\ UNCHANGED <<localFiles, localDirs, updatedFiles, newFiles,
                          errorFiles, checkQueries, faults, dl>> ]_vars

\* doFile has been called for a present a.nc with no mode set, and main is
\* at the next entry.
C12_Witness ==
    /\ check = ""
    /\ pc = "files"
    /\ fIdx = 2
    /\ PathA \in doFileCalls
    /\ PathA \in DOMAIN localFiles
    /\ newFiles = <<>> /\ updatedFiles = <<>> /\ errorFiles = <<>>

\* C13: checksum mode. For a file present locally with check = "md5sum",
\* when the query does not raise, doFile goes on to an update exactly when
\* the hash of the local content differs from the hash of the remote
\* content; with equal hashes nothing is written and nothing is recorded.
C13_Md5Decides ==
    [][ (/\ DoFileStep
         /\ LocalExists(LastWord(CurLine))
         /\ check = "md5sum"
         /\ pc' # "aborted")
        => LET name == LastWord(CurLine)
               differ == Md5(localFiles[LocalPath(name)].content)
                            # Md5(RemoteFiles[RemotePath(name)].content)
           IN  /\ differ => /\ pc' = "dl_open"
                            /\ dl'.name = name
                            /\ dl'.isUpdate = TRUE
               /\ ~differ => /\ pc' = "files"
                             /\ fIdx' = fIdx + 1
                             /\ UNCHANGED <<localFiles, updatedFiles, newFiles,
                                            errorFiles, dl>> ]_vars

\* Under checksum mode a run has updated a.nc, whose content differed, and
\* skipped b.nc, whose content was the remote one.
C13_Witness ==
    /\ check = "md5sum"
    /\ pc = "done"
    /\ updatedFiles = <<PathA>>
    /\ PathB \in checkQueries
    /\ newFiles = <<>>
    /\ errorFiles = <<>>

\* main hands doDirectory an entry of the dataset directory's listing.
DoDirectoryStep == pc = "loop" /\ dsIdx <= Len(datasetList)

\* The entry is entered and listed: both cursors are inside it and fileList
\* is its listing.
EnteredAndListed(line) ==
    /\ localCwd' = Resolve(localCwd, LastWord(line))
    /\ remoteCwd' = Resolve(remoteCwd, LastWord(line))
    /\ localCwd' \in localDirs'
    /\ fileList' = Listing(remoteCwd')

\* The entry is left alone: no cursor moves, nothing is fetched, written or
\* recorded, and doFile is not called.
Ignored ==
    /\ pc' \notin {"dl_open", "dl_fetch"}
    /\ UNCHANGED <<localCwd, remoteCwd, localFiles, localDirs, updatedFiles,
                   newFiles, errorFiles, doFileCalls, dl>>

\* The kind of treatment the claim gives an entry, by its first character.
Classified(line) ==
    CASE line.mark = "d" -> EnteredAndListed(line)
      [] line.mark = "-" ->
            HasExtension(LastWord(line))
               => Resolve(localCwd, LastWord(line)) \in doFileCalls'
      [] OTHER -> Ignored

\* C14: listing classification. Whenever the walk takes an entry from a
\* listing (of the dataset directory or of a directory below it) and the
\* step does not raise, an entry starting with "d" is entered and listed, an
\* entry starting with "-" is considered for download (doFile is called when
\* the extension matches), and any other entry is ignored.
C14_Classification ==
    [][ /\ (DoDirectoryStep /\ pc' # "aborted")
            => Classified(datasetList[dsIdx])
        /\ (pc = "files" /\ fIdx <= Len(fileList) /\ pc' # "aborted")
            => Classified(CurLine) ]_vars

\* C15: downloadFile reports success on every call. Whenever a downloadFile
\* call ends, with the fetch completed or raised, doFile records the file as
\* it does for result True: the path is appended to updatedFiles for an
\* update and to newFiles otherwise, and a raised fetch has its errorFiles
\* entry as well.
C15_AlwaysReportsSuccess ==
    [][ (pc = "dl_fetch" /\ pc' = "files")
        => /\ IF dl.isUpdate
              THEN /\ updatedFiles' = Append(updatedFiles, AbsPath(localCwd, dl.name))
                   /\ newFiles' = newFiles
              ELSE /\ newFiles' = Append(newFiles, AbsPath(localCwd, dl.name))
                   /\ updatedFiles' = updatedFiles
           /\ faults' > faults => errorFiles' = Append(errorFiles, dl.name) ]_vars

\* The download of a.nc raised and a.nc is recorded both as failed and as
\* new.
C15_Witness ==
    /\ "a.nc" \in Range(errorFiles)
    /\ PathA \in Range(newFiles)
    /\ faults > 0

\* C16: mirrored cursor move. Whenever doDirectory ends for a directory
\* entry, normally or by an error, either both cursors have moved into the
\* directory or neither has moved.
C16_BothOrNeither ==
    [][ (DoDirectoryStep /\ datasetList[dsIdx].mark = "d")
        => LET name == LastWord(datasetList[dsIdx])
           IN  \/ /\ localCwd' = Resolve(localCwd, name)
                  /\ remoteCwd' = Resolve(remoteCwd, name)
               \/ /\ localCwd' = localCwd
                  /\ remoteCwd' = remoteCwd ]_vars

\* C17: after a failed update the temporary file filename + ".1" is still
\* in the local directory as the fetch left it, and the file at filename is
\* as it was.
C17_StrayTempLeft ==
    [][ (FetchRaisedStep /\ dl.isUpdate)
        => /\ LocalPath(Target(dl)) \in DOMAIN localFiles'
           /\ localFiles'[LocalPath(Target(dl))] = localFiles[LocalPath(Target(dl))]
           /\ localFiles'[LocalPath(dl.name)] = localFiles[LocalPath(dl.name)] ]_vars

\* C18: top-level positional skip. The entries main hands to doDirectory
\* are those at positions 3, 4, ... of the dataset directory's listing,
\* each once and in that order: the first two are never entered and nothing
\* is downloaded from them, and a run that reaches the summary has taken
\* every later entry.
C18_PositionalSkip ==
    /\ \A i \in 1..Len(processed) : processed[i] = i + 2
    /\ \A i \in 1..Len(processed) : processed[i] <= Len(datasetList)
    /\ pc = "loop" => Len(processed) = dsIdx - 3
    /\ pc \in {"files", "dl_open", "dl_fetch"} => Len(processed) = dsIdx - 2
    /\ pc = "done" => Len(processed) = Len(datasetList) - 2
    /\ (Len(remoteCwd) = 3 /\ SubSeq(remoteCwd, 1, 2) = DatasetDir)
          => \E i \in Range(processed) : remoteCwd[3] = LastWord(datasetList[i])
    /\ \A p \in doFileCalls :
          \E i \in Range(processed) :
             p = Append(Append(DatasetDir, LastWord(datasetList[i])), BaseName(p))

\* The listing starts with the directory t and the file x.nc, both real
\* entries: the run has ended having taken only the third entry, s, and
\* its files.
C18_Witness ==
    /\ remoteTop[1] = Line("d", <<"t">>)
    /\ pc = "done"
    /\ processed = <<3>>
    /\ PathA \in doFileCalls
    /\ <<"top", "1DD_V1", "t">> \notin localDirs

\* text ends with suffix, character for character.
EndsWith(text, suffix) ==
    /\ Len(suffix) <= Len(text)
    /\ \A i \in 1..Len(suffix) :
          text[Len(text) - Len(suffix) + i] = suffix[i]

\* C19: extension filter. Whenever handleFile takes a regular-file entry,
\* doFile is called for it if its name ends with the configured extension,
\* compared case-sensitively, and otherwise the entry is ignored.
C19_ExtensionFilter ==
    [][ (pc = "files" /\ fIdx <= Len(fileList) /\ CurLine.mark = "-")
        => IF EndsWith(Chars[LastWord(CurLine)], extension)
           THEN LocalPath(LastWord(CurLine)) \in doFileCalls'
           ELSE Ignored /\ pc' = "files" /\ fIdx' = fIdx + 1 ]_vars

====
